---- MODULE Spec2Model ----
(***************************************************************************)
(* MazeSolver (src/maze.py): a grid maze is turned into an adjacency       *)
(* matrix over its cells, the matrix is closed under repeated              *)
(* T := (T x T^t > 0), and is_connected reads one entry of the result.     *)
(*                                                                         *)
(* The caller owns one numpy array (grid).  Every MazeSolver built from it *)
(* keeps a reference to that array (self.grid), not a copy, and owns its   *)
(* two matrices.  The constructor is modelled pass by pass, because the    *)
(* state between two passes of its loop is what some properties speak of.  *)
(* Spec follows one solver on one array; SpecRebuild follows the second    *)
(* scenario of main: a solver, a write to the array, a second solver.      *)
(***************************************************************************)
EXTENDS Integers, Sequences, FiniteSets

\* ------------------------------------------------------------- bounds
\* Arrays have at most MaxR rows, MaxC columns and MaxCells squares; the arrays
\* of SpecRebuild have at most RebuildCells squares.
MaxR == 3
MaxC == 3
MaxCells == 9
RebuildCells == 4

VARIABLES grid, solvers, call

vars == <<grid, solvers, call>>

\* ------------------------------------------------------------- grids
\* The cells of an R x C array, (row, column), zero indexed.
Cells(R, C) == (0 .. R - 1) \X (0 .. C - 1)

\* np.zeros((R, C)) with some cells then set to 1 (wall): shape and contents.
GridsOfShape(R, C) == { [rows |-> R, cols |-> C, cell |-> f] : f \in [Cells(R, C) -> {0, 1}] }

\* The shapes the caller may hand over, zero rows or zero columns included.
Shapes(n) == { s \in (0 .. MaxR) \X (0 .. MaxC) : s[1] * s[2] <= n }

Grids(n) == UNION { GridsOfShape(s[1], s[2]) : s \in Shapes(n) }

\* ------------------------------------------------------------- helpers of MazeSolver
\* _grid_coords_to_adjacency_coords: i * shape[1] + j, with no bounds check.
GridCoordsToAdjacencyCoords(g, i, j) == i * g.cols + j

\* _get_grid_coord_value without the two ">= 0" tests: a negative index then
\* counts from the end of the axis, as numpy indexing does.
GetGridCoordValueNoLowerBound(g, i, j) ==
    IF i < g.rows
    THEN IF j < g.cols THEN g.cell[<<i % g.rows, j % g.cols>>] ELSE -1
    ELSE -1

\* _get_grid_coord_value with the wall convention inverted (1 read as open).
GetGridCoordValueInverted(g, i, j) ==
    IF i >= 0 /\ i < g.rows
    THEN IF j >= 0 /\ j < g.cols THEN 1 - g.cell[<<i, j>>] ELSE -1
    ELSE -1

\* _get_grid_coord_value: the cell's value inside the array, -1 outside it.
GetGridCoordValue(g, i, j) ==
    IF i >= 0 /\ i < g.rows
    THEN IF j >= 0 /\ j < g.cols THEN g.cell[<<i, j>>] ELSE -1
    ELSE -1

\* Only the four squares that share a side with (i, j).
OffsetsFour == << <<1, 0>>, <<-1, 0>>, <<0, 1>>, <<0, -1>> >>

\* The eight squares looked at around (i, j), in the order of the code.
Offsets == << <<1, 0>>, <<1, -1>>, <<1, 1>>, <<-1, 0>>, <<-1, 1>>, <<-1, -1>>, <<0, 1>>, <<0, -1>> >>

\* The index pairs written for the square (i, j) and its d-th neighbour, when
\* that neighbour is inside the array and open:
\* adjacency_matrix[node1,nodeN]=1 ; adjacency_matrix[nodeN,node1]=1
NeighbourWrites(g, i, j, d) ==
    LET ni == i + Offsets[d][1]
        nj == j + Offsets[d][2]
        node1 == GridCoordsToAdjacencyCoords(g, i, j)
    IN IF GetGridCoordValue(g, ni, nj) = 0
       THEN { <<node1, GridCoordsToAdjacencyCoords(g, ni, nj)>>,
              <<GridCoordsToAdjacencyCoords(g, ni, nj), node1>> }
       ELSE {}

\* The loop body with the self loop stored before the wall test.
SquareWritesSelfLoopAlways(g, i, j) ==
    LET node1 == GridCoordsToAdjacencyCoords(g, i, j)
    IN { <<node1, node1>> } \cup
       IF GetGridCoordValue(g, i, j) = 0
       THEN UNION { NeighbourWrites(g, i, j, d) : d \in DOMAIN Offsets }
       ELSE {}

\* The body of the two nested loops for the square (i, j): nothing for a wall,
\* the self loop and the eight neighbour blocks for an open square.
SquareWrites(g, i, j) ==
    IF GetGridCoordValue(g, i, j) = 0
    THEN LET node1 == GridCoordsToAdjacencyCoords(g, i, j)
         IN { <<node1, node1>> } \cup
            UNION { NeighbourWrites(g, i, j, d) : d \in DOMAIN Offsets }
    ELSE {}

\* _grid_to_adjacency_matrix: np.zeros((num_nodes, num_nodes)), then the loops
\* over every square store 1 at the index pairs above.  Every store writes the
\* same value, so the result is 1 exactly at the pairs some iteration wrote.
GridToAdjacencyMatrix(g) ==
    LET num_nodes == g.rows * g.cols
        written == UNION { SquareWrites(g, c[1], c[2]) : c \in Cells(g.rows, g.cols) }
    IN [p \in 0 .. num_nodes - 1 |->
           [q \in 0 .. num_nodes - 1 |-> IF <<p, q>> \in written THEN 1 ELSE 0]]

\* One entry of np.matmul(T, T.T): sum over r < n of T[p,r] * T[q,r].
RECURSIVE DotRows(_, _, _, _)
DotRows(T, p, q, n) ==
    IF n = 0 THEN 0 ELSE DotRows(T, p, q, n - 1) + T[p][n - 1] * T[q][n - 1]

\* np.matmul(T, T.T)
MatMulTranspose(T) ==
    [p \in DOMAIN T |-> [q \in DOMAIN T |-> DotRows(T, p, q, Cardinality(DOMAIN T))]]

\* The pass without the line M[M>0]=1.
ClipNothing(M) == M

\* M[M>0]=1 : positive entries become 1, the others stay.
Clip(M) == [p \in DOMAIN M |-> [q \in DOMAIN M |-> IF M[p][q] > 0 THEN 1 ELSE M[p][q]]]

\* One pass of the constructor's loop.
ClosurePass(T) == Clip(MatMulTranspose(T))

\* A single pass whatever the size of the maze.
MaxHopsOnce(g) == IF g.rows * g.cols > 0 THEN 1 ELSE 0

\* max_hops
MaxHops(g) == g.rows * g.cols

\* numpy indexing of an n x n matrix M at [a, b]: an index in -n .. -1 counts
\* from the end, an index outside -n .. n-1 raises IndexError.
InRange(n, a) == a >= -n /\ a < n

Wrap(n, a) == IF a < 0 THEN a + n ELSE a

\* is_connected with nodeB computed from (bX, bX).
IsConnectedRowTwice(s, g, garg, aX, aY, bX, bY) ==
    LET nodeA == GridCoordsToAdjacencyCoords(g, aX, aY)
        nodeB == GridCoordsToAdjacencyCoords(g, bX, bX)
        n == Cardinality(DOMAIN s.accessibility_matrix)
    IN IF InRange(n, nodeA) /\ InRange(n, nodeB)
       THEN IF s.accessibility_matrix[Wrap(n, nodeA)][Wrap(n, nodeB)] > 0
            THEN "True" ELSE "False"
       ELSE "IndexError"

\* is_connected taking the shape from its grid argument instead of self.grid.
IsConnectedShapeOfArgument(s, g, garg, aX, aY, bX, bY) ==
    LET nodeA == GridCoordsToAdjacencyCoords(garg, aX, aY)
        nodeB == GridCoordsToAdjacencyCoords(garg, bX, bY)
        n == Cardinality(DOMAIN s.accessibility_matrix)
    IN IF InRange(n, nodeA) /\ InRange(n, nodeB)
       THEN IF s.accessibility_matrix[Wrap(n, nodeA)][Wrap(n, nodeB)] > 0
            THEN "True" ELSE "False"
       ELSE "IndexError"

\* is_connected of the instance s; the grid argument garg is not read, the
\* shape comes from self.grid (the caller's array g).
IsConnected(s, g, garg, aX, aY, bX, bY) ==
    LET nodeA == GridCoordsToAdjacencyCoords(g, aX, aY)
        nodeB == GridCoordsToAdjacencyCoords(g, bX, bY)
        n == Cardinality(DOMAIN s.accessibility_matrix)
    IN IF InRange(n, nodeA) /\ InRange(n, nodeB)
       THEN IF s.accessibility_matrix[Wrap(n, nodeA)][Wrap(n, nodeB)] > 0
            THEN "True" ELSE "False"
       ELSE "IndexError"

\* ------------------------------------------------------------- the caller
NoCall == [op |-> "none", args |-> <<>>, ret |-> "None"]

\* No constructor is running.
Idle == \A n \in DOMAIN solvers : solvers[n].pc = "ready"

\* The coordinates a caller may pass: every cell, and one step outside on
\* each side.
RowArgs == -1 .. grid.rows
ColArgs == -1 .. grid.cols

\* A grid argument that is not the array the solver was built from.
OtherGrid == [rows |-> 1, cols |-> 2, cell |-> [c \in Cells(1, 2) |-> 0]]

\* MazeSolver.__init__ up to the copy of the adjacency matrix (lines 41-57);
\* the loop of max_hops passes follows, one ClosureStep each.  built_from is
\* the contents of the array at this moment, kept for the statements that
\* compare the answers with the maze the solver was built from.
NewSolver(g) ==
    LET A == GridToAdjacencyMatrix(g)
    IN [pc |-> IF MaxHops(g) = 0 THEN "ready" ELSE "closure",
        k |-> 0,
        adjacency_matrix |-> A,
        accessibility_matrix |-> A,
        built_from |-> g]

\* solver = MazeSolver(grid): the first solver built from the array.
Construct ==
    /\ Len(solvers) = 0
    /\ solvers' = <<NewSolver(grid)>>
    /\ call' = [op |-> "__init__", args |-> <<>>, ret |-> "None"]
    /\ UNCHANGED grid

\* One iteration of "for i in range(0,max_hops)" in the running constructor.
ClosureStep ==
    /\ Len(solvers) > 0
    /\ LET n == Len(solvers)
           s == solvers[n]
       IN /\ s.pc = "closure"
          /\ s.k < MaxHops(grid)
          /\ solvers' = [solvers EXCEPT ![n] =
                 [s EXCEPT !.accessibility_matrix = ClosurePass(s.accessibility_matrix),
                           !.k = s.k + 1,
                           !.pc = IF s.k + 1 = MaxHops(grid) THEN "ready" ELSE "closure"]]
    /\ UNCHANGED <<grid, call>>

\* solver.is_connected(garg, aX, aY, bX, bY) on a finished solver.
Query ==
    /\ Len(solvers) > 0
    /\ Idle
    /\ call.op # "is_connected"
    /\ \E n \in DOMAIN solvers, garg \in {grid, OtherGrid} :
       \E aX \in RowArgs, bX \in RowArgs, aY \in ColArgs, bY \in ColArgs :
          call' = [op |-> "is_connected",
                   args |-> <<n, aX, aY, bX, bY>>,
                   ret |-> IsConnected(solvers[n], grid, garg, aX, aY, bX, bY)]
    /\ UNCHANGED <<grid, solvers>>

\* The caller consumes the answer (main: assert and print after each query).
Report ==
    /\ call.op = "is_connected"
    /\ call' = NoCall
    /\ UNCHANGED <<grid, solvers>>

\* grid[i,j] = v by the caller, on the array the first solver refers to and
\* before a second one is built (main: grid3[8,7]=0 between solver3 and
\* solver4).  The array is written until its contents differ from what the
\* solver was built from.
SetItem ==
    /\ Len(solvers) = 1
    /\ Idle
    /\ call.op # "is_connected"
    /\ grid = solvers[1].built_from
    /\ \E c \in Cells(grid.rows, grid.cols), v \in {0, 1} :
          /\ grid' = [grid EXCEPT !.cell[c] = v]
          /\ call' = [op |-> "setitem", args |-> <<c[1], c[2], v>>, ret |-> "None"]
    /\ UNCHANGED solvers

\* A second MazeSolver(grid) on the same array (main: solver4); the first
\* solver stays in use.
Rebuild ==
    /\ Len(solvers) = 1
    /\ Idle
    /\ call.op # "is_connected"
    /\ solvers' = Append(solvers, NewSolver(grid))
    /\ call' = [op |-> "__init__", args |-> <<>>, ret |-> "None"]
    /\ UNCHANGED grid

\* ------------------------------------------------------------- specifications
Init ==
    /\ grid \in Grids(MaxCells)
    /\ solvers = <<>>
    /\ call = NoCall

Next == Construct \/ ClosureStep \/ Query \/ Report

\* One solver on one array.
Spec == Init /\ [][Next]_vars

InitRebuild ==
    /\ grid \in Grids(RebuildCells)
    /\ solvers = <<>>
    /\ call = NoCall

NextRebuild == Construct \/ ClosureStep \/ Query \/ Report \/ SetItem \/ Rebuild

\* The caller also writes to the array and builds a second solver from it.
SpecRebuild == InitRebuild /\ [][NextRebuild]_vars

\* ------------------------------------------------------------- the maze itself
\* What the properties compare the matrices with: open squares, neighbouring
\* squares and chains of them, stated on the grid without any matrix.
Open(g, c) == c \in Cells(g.rows, g.cols) /\ g.cell[c] = 0

Abs(x) == IF x < 0 THEN -x ELSE x

\* The same square or one of its eight neighbours.
Adjacent(c, d) == Abs(c[1] - d[1]) <= 1 /\ Abs(c[2] - d[2]) <= 1

\* The open squares one step (or none) away from a set of open squares.
StepFrom(g, S) == S \cup { d \in Cells(g.rows, g.cols) : Open(g, d) /\ \E c \in S : Adjacent(c, d) }

\* The squares joined to the open squares S by a chain of at most n steps.
RECURSIVE Within(_, _, _)
Within(g, S, n) ==
    IF n = 0 THEN S
    ELSE LET S2 == StepFrom(g, S) IN IF S2 = S THEN S ELSE Within(g, S2, n - 1)

\* The squares joined to the open squares S by a chain of any length.
RECURSIVE Reachable(_, _)
Reachable(g, S) ==
    LET S2 == StepFrom(g, S) IN IF S2 = S THEN S ELSE Reachable(g, S2)

\* a and b are open and a chain of open squares joins them.
Connected(g, a, b) == Open(g, a) /\ b \in Reachable(g, {a})

\* The square of a node index.
SquareOf(g, p) == <<p \div g.cols, p % g.cols>>

RECURSIVE Pow2(_)
Pow2(k) == IF k = 0 THEN 1 ELSE 2 * Pow2(k - 1)

\* The last call was is_connected; its solver and its two squares.
Queried == call.op = "is_connected"
QSolver == solvers[call.args[1]]
QA == <<call.args[2], call.args[3]>>
QB == <<call.args[4], call.args[5]>>
QInBounds == QA \in Cells(grid.rows, grid.cols) /\ QB \in Cells(grid.rows, grid.cols)

\* ------------------------------------------------------------- properties
\* C1: an in-bounds query on a finished solver answers True exactly when both
\* squares are open in the maze the solver was built from and a chain of open
\* squares, each the same as or a neighbour of the one before, joins them;
\* otherwise it answers False.
C1_IsConnectedIffChain ==
    (Queried /\ QInBounds) =>
        call.ret = IF Connected(QSolver.built_from, QA, QB) THEN "True" ELSE "False"

\* A True answer for two squares that no chain of two steps joins.
C1_Witness ==
    /\ Queried /\ QInBounds
    /\ call.ret = "True"
    /\ QB \notin Within(QSolver.built_from, {QA}, 2)

\* C2 (as stated): on a solver built from an array of at least one row and one
\* column, a query with a coordinate outside the array answers False and
\* raises nothing.
C2_OutOfBoundsIsFalse ==
    (Queried /\ ~QInBounds /\ grid.rows >= 1 /\ grid.cols >= 1) => call.ret = "False"

\* C3 (as stated): no solver comes out of the constructor for an array with
\* zero rows or zero columns.
C3_EmptyGridRejected ==
    (grid.rows = 0 \/ grid.cols = 0) => \A n \in DOMAIN solvers : solvers[n].pc # "ready"

\* C4: the adjacency matrix the constructor got from _grid_to_adjacency_matrix
\* is N x N, and its entry (p, q) is 1 exactly when the squares of p and q are
\* both open and are the same square or differ by at most one row and one
\* column; every other entry is 0.
C4_AdjacencyIsEightNeighbourhood ==
    \A n \in DOMAIN solvers :
        call.op = "__init__" =>
            LET g == solvers[n].built_from
                A == solvers[n].adjacency_matrix
                N == g.rows * g.cols
            IN /\ DOMAIN A = 0 .. N - 1
               /\ \A p \in 0 .. N - 1 :
                     /\ DOMAIN A[p] = 0 .. N - 1
                     /\ \A q \in 0 .. N - 1 :
                           A[p][q] = IF /\ Open(g, SquareOf(g, p))
                                        /\ Open(g, SquareOf(g, q))
                                        /\ Adjacent(SquareOf(g, p), SquareOf(g, q))
                                     THEN 1 ELSE 0

\* An array of at least two rows and two columns whose last square of the
\* first row and first square of the second row are open, with no edge between
\* their consecutive node indices, and with a diagonal edge elsewhere.
C4_Witness ==
    /\ call.op = "__init__"
    /\ Len(solvers) = 1
    /\ grid.rows >= 2 /\ grid.cols >= 3
    /\ Open(grid, <<0, grid.cols - 1>>) /\ Open(grid, <<1, 0>>)
    /\ solvers[1].adjacency_matrix[grid.cols - 1][grid.cols] = 0
    /\ solvers[1].adjacency_matrix[0][grid.cols + 1] = 1
    /\ \E c \in Cells(grid.rows, grid.cols) : ~Open(grid, c)

\* C5: an in-bounds query and the query with the two squares exchanged get
\* the same answer from the same solver.
C5_QuerySymmetric ==
    (Queried /\ QInBounds) =>
        call.ret = IsConnected(QSolver, grid, grid, QB[1], QB[2], QA[1], QA[2])

\* A True answer for two different squares.
C5_Witness ==
    /\ Queried /\ QInBounds
    /\ QA # QB
    /\ call.ret = "True"

\* C6: a square queried against itself answers True when open and False when
\* a wall, and a query with a wall on either side answers False.
C6_OpenReflexiveWallIsolated ==
    (Queried /\ QInBounds) =>
        LET g == QSolver.built_from
        IN /\ (QA = QB /\ Open(g, QA)) => call.ret = "True"
           /\ (~Open(g, QA) \/ ~Open(g, QB)) => call.ret = "False"

\* A wall queried against itself on an array of several squares, all walls.
C6_Witness ==
    /\ Queried /\ QInBounds
    /\ QA = QB
    /\ grid.rows * grid.cols >= 4
    /\ \A c \in Cells(grid.rows, grid.cols) : ~Open(grid, c)
    /\ call.ret = "False"

\* C8: when the constructor returns, one more pass T := (T x T^t > 0) leaves
\* the accessibility matrix as it is.
C8_ClosureIsFixedPoint ==
    \A n \in DOMAIN solvers :
        (call.op = "__init__" /\ solvers[n].pc = "ready") =>
            ClosurePass(solvers[n].accessibility_matrix) = solvers[n].accessibility_matrix

\* A finished solver whose matrix needed more than one pass.
C8_Witness ==
    /\ call.op = "__init__"
    /\ Len(solvers) = 1
    /\ solvers[1].pc = "ready"
    /\ solvers[1].accessibility_matrix # ClosurePass(solvers[1].adjacency_matrix)

\* C9: after k passes of the constructor's loop, entry (p, q) of the
\* accessibility matrix is 1 exactly when the squares of p and q are open and
\* joined by a chain of at most 2^k steps, and 0 otherwise; the matrix is
\* symmetric, and an entry that is 1 is still 1 after the next pass.
C9_PassKReachesTwoToTheK ==
    \A n \in DOMAIN solvers :
        call.op = "__init__" =>
            LET g == solvers[n].built_from
                T == solvers[n].accessibility_matrix
                k == solvers[n].k
                N == g.rows * g.cols
            IN /\ DOMAIN T = 0 .. N - 1
               /\ \A p \in 0 .. N - 1 :
                     LET near == IF Open(g, SquareOf(g, p))
                                 THEN Within(g, {SquareOf(g, p)}, Pow2(k))
                                 ELSE {}
                     IN \A q \in 0 .. N - 1 :
                           /\ T[p][q] = IF SquareOf(g, q) \in near THEN 1 ELSE 0
                           /\ T[p][q] = T[q][p]
               /\ k < MaxHops(g) =>
                     \A p \in 0 .. N - 1, q \in 0 .. N - 1 :
                        T[p][q] = 1 => ClosurePass(T)[p][q] = 1

\* Two passes done, and an entry that is 1 for two squares more than two steps
\* apart.
C9_Witness ==
    /\ call.op = "__init__"
    /\ Len(solvers) = 1
    /\ solvers[1].k = 2
    /\ LET g == solvers[1].built_from
       IN \E p \in 0 .. g.rows * g.cols - 1, q \in 0 .. g.rows * g.cols - 1 :
             /\ solvers[1].accessibility_matrix[p][q] = 1
             /\ SquareOf(g, q) \notin Within(g, {SquareOf(g, p)}, 2)

\* g2 is g1 with exactly one wall turned into an open square.
OneWallOpened(g1, g2) ==
    /\ g1.rows = g2.rows /\ g1.cols = g2.cols
    /\ \E c \in Cells(g1.rows, g1.cols) :
          /\ g1.cell[c] = 1 /\ g2.cell[c] = 0
          /\ \A d \in Cells(g1.rows, g1.cols) \ {c} : g1.cell[d] = g2.cell[d]

\* C7: when a solver answers True to an in-bounds query, every solver built
\* from the same maze with exactly one wall opened answers True to it too.
C7_OpeningAWallKeepsConnections ==
    (Queried /\ QInBounds /\ call.ret = "True") =>
        \A n \in DOMAIN solvers :
            (solvers[n].pc = "ready" /\ OneWallOpened(QSolver.built_from, solvers[n].built_from)) =>
                IsConnected(solvers[n], grid, grid, QA[1], QA[2], QB[1], QB[2]) = "True"

\* A True answer of the first solver, with a second solver built after one
\* wall was opened, which joins two different squares that were open and held
\* apart in the first maze.
C7_Witness ==
    /\ Queried /\ QInBounds /\ call.ret = "True"
    /\ call.args[1] = 1
    /\ Len(solvers) = 2
    /\ solvers[2].pc = "ready"
    /\ OneWallOpened(solvers[1].built_from, solvers[2].built_from)
    /\ \E a \in Cells(grid.rows, grid.cols), b \in Cells(grid.rows, grid.cols) :
          /\ a # b
          /\ Open(solvers[1].built_from, a) /\ Open(solvers[1].built_from, b)
          /\ IsConnected(solvers[1], grid, grid, a[1], a[2], b[1], b[2]) = "False"
          /\ IsConnected(solvers[2], grid, grid, a[1], a[2], b[1], b[2]) = "True"

\* C10: a query changes neither the array nor any solver, and its answer does
\* not depend on the grid argument passed; no step changes the matrices of a
\* finished solver; and every in-bounds query gets the same answer from a
\* finished solver before and after a step that writes to the array or builds
\* another solver (a step that changes neither leaves the answers as they are).
C10_QueriesChangeNothing ==
    [][ /\ call'.op = "is_connected" =>
              /\ grid' = grid
              /\ solvers' = solvers
              /\ \A garg \in {grid, OtherGrid} :
                    call'.ret = IsConnected(solvers[call'.args[1]], grid, garg,
                                            call'.args[2], call'.args[3],
                                            call'.args[4], call'.args[5])
        /\ \A n \in DOMAIN solvers :
              solvers[n].pc = "ready" =>
                 /\ solvers'[n].adjacency_matrix = solvers[n].adjacency_matrix
                 /\ solvers'[n].accessibility_matrix = solvers[n].accessibility_matrix
                 /\ (grid' # grid \/ solvers' # solvers) =>
                       \A a \in Cells(grid.rows, grid.cols), b \in Cells(grid.rows, grid.cols) :
                          IsConnected(solvers'[n], grid', grid', a[1], a[2], b[1], b[2])
                             = IsConnected(solvers[n], grid, grid, a[1], a[2], b[1], b[2])
      ]_vars

\* After the caller turned an open square into a wall, the solver built before
\* still answers True for that square.
C10_Witness ==
    /\ Queried /\ QInBounds
    /\ call.args[1] = 1
    /\ Open(solvers[1].built_from, QA)
    /\ ~Open(grid, QA)
    /\ QA # QB
    /\ call.ret = "True"

====
